---- MODULE Spec2Model ----
(***************************************************************************)
(* Model of benchmark.py: the benchmark driver main() with its per-backend *)
(* setup / ingest / warm-up / measured repetitions / aggregation loop, the *)
(* thread pool of one repetition, the exact top-k baseline and the         *)
(* statistics written to the results store.                                *)
(*                                                                         *)
(* Numbers: a latency or a wall-clock span is a positive integer number of *)
(* clock ticks.  A float statistic is an exact rational [num, den]; None   *)
(* is the statistic whose field none is TRUE.                              *)
(***************************************************************************)
EXTENDS Integers, Naturals, Sequences, FiniteSets, Bags, TLC

\* ---------------------------------------------------------------- bounds
MaxPasses == 2      \* backends x sweep values x repetitions of one run
MaxQueries == 2     \* len(queries)
MaxSamples == 4     \* measured queries of one run
MaxConc == 2        \* --concurrency

Ids == {0, 1}               \* row ids of the reference vectors
NumVectors == Cardinality(Ids)          \* len(vectors)
Ks == {1, 3}                \* top_k values: below and above len(vectors)
Warmups == {0, 1}           \* --warmup
Latencies == {1, 2}         \* time.time() - s0, in ticks
Walls == {1, 2}             \* time.time() - s_all, in ticks
DbNames == {"qdrant", "pinecone", "faiss"}   \* "faiss" is not a name get_db knows

\* ------------------------------------------------------- python values
PyNone == [t |-> "none", v |-> 0]
PyInt(n) == [t |-> "int", v |-> n]
PyStr(n) == [t |-> "str", v |-> n]      \* the decimal string of n

\* ------------------------------------------------------------ rationals
Rat(n, d) == [none |-> FALSE, num |-> n, den |-> d]
NoneStat == [none |-> TRUE, num |-> 0, den |-> 1]
StatEq(a, b) ==
    IF a.none \/ b.none THEN a.none = b.none
    ELSE a.num * b.den = b.num * a.den
RatAdd(a, b) == Rat(a.num * b.den + b.num * a.den, a.den * b.den)

RECURSIVE SumSeq(_)
SumSeq(s) == IF s = <<>> THEN 0 ELSE Head(s) + SumSeq(Tail(s))

RECURSIVE SumSq(_)
SumSq(s) == IF s = <<>> THEN 0 ELSE Head(s) * Head(s) + SumSq(Tail(s))

RECURSIVE SumRat(_)
SumRat(s) == IF s = <<>> THEN Rat(0, 1) ELSE RatAdd(Head(s), SumRat(Tail(s)))

\* np.mean of a list of ticks or counts
Mean(s) == Rat(SumSeq(s), Len(s))

\* np.mean of a list of floats
MeanRat(s) == LET t == SumRat(s) IN Rat(t.num, t.den * Len(s))

\* np.percentile(s, p): linear interpolation between the two closest ranks
Percentile(s, p) ==
    LET a == SortSeq(s, LAMBDA x, y : x < y)
        n == Len(a)
        pos == p * (n - 1)
        lo == pos \div 100
        hi == IF lo + 1 < n THEN lo + 1 ELSE lo
    IN Rat(a[lo + 1] * 100 + (a[hi + 1] - a[lo + 1]) * (pos - 100 * lo), 100)

\* np.std(s), squared: the population variance
StdSq(s) ==
    LET n == Len(s) IN Rat(n * SumSq(s) - SumSeq(s) * SumSeq(s), n * n)

\* ---------------------------------------------------- reference data
\* sims = mat @ qv for query q, one score per reference vector
Sim(q, i) == (q + i) % 2

\* exact_topk_indices(qv, mat, k), as the set of indices it returns
ExactTopK(q, k) ==
    IF k >= NumVectors THEN Ids
    ELSE CHOOSE S \in SUBSET Ids :
            /\ Cardinality(S) = k
            /\ \A i \in S : \A j \in Ids \ S : Sim(q, i) >= Sim(q, j)

\* q["expected"]: the reference rows that answer query q
Expected(q) == {i \in Ids : i < q}

\* ------------------------------------------------------ collaborators
Supported == {"qdrant", "milvus", "weaviate", "pinecone", "topk"}

\* get_db(name, args): the adapter, or None for a name no branch matches
get_db(name) == IF name \in Supported THEN name ELSE "None"

\* db.search(q_vec, top_k = k): the result records of a deterministic backend.
\* qdrant answers with the true neighbours and carries row_id in the payload;
\* pinecone answers with the first rows of the index and string ids only.
Search(db, q, k) ==
    IF db = "pinecone"
    THEN {[row_id |-> PyNone, id |-> PyStr(i)] : i \in {j \in Ids : j < k}}
    ELSE {[row_id |-> PyInt(i), id |-> PyInt(i)] : i \in ExactTopK(q, k)}

\* hits_at_k(res_payloads, q["expected"])
hits_at_k(res, q) ==
    Cardinality({r \in res :
        (IF r.row_id.t = "none" THEN r.id.v ELSE r.row_id.v) \in Expected(q)})

\* len(true_set.intersection(set(res_ids)))
Inter(db_name, res, k, q) ==
    IF db_name = "pinecone"
    THEN LET true_set == {PyStr(i) : i \in ExactTopK(q, k)}
             res_ids == {PyStr(r.row_id.v) : r \in {x \in res : x.row_id.t # "none"}}
                        \cup {PyStr(r.id.v) :
                                r \in {x \in res : x.row_id.t = "none" /\ x.id.t # "none"}}
         IN Cardinality(true_set \cap res_ids)
    ELSE LET true_set == {PyInt(i) : i \in ExactTopK(q, k)}
             res_ids == {PyInt(r.row_id.v) : r \in {x \in res : x.row_id.t = "int"}}
                        \cup {PyInt(r.id.v) :
                                r \in {x \in res : x.row_id.t # "int" /\ x.id.t = "int"}}
         IN Cardinality(true_set \cap res_ids)

\* inter / float(k) if k > 0 else 0.0
RecallOf(inter, k) == IF k > 0 THEN Rat(inter, k) ELSE Rat(0, 1)


\* ---------------------------------------------------------------- state
VARIABLES
    dbs,            \* args.dbs
    topks,          \* args.topk_sweep or [args.topk]
    concurrency,    \* args.concurrency
    repetitions,    \* args.repetitions
    warmup,         \* args.warmup
    nq,             \* len(queries); the queries are 1 .. nq
    pc,             \* where main() is
    dbIdx,          \* position of db_name in args.dbs
    db,             \* get_db(db_name, args)
    adapter,        \* lifecycle of the backend behind db
    wPass, wQ,      \* warm-up pass and query
    kIdx,           \* position of k in topks
    rep,            \* repetitions finished for this k
    order,          \* the shuffled order of this repetition
    subIdx,         \* futures submitted so far
    queue,          \* the executor's work queue
    fut,            \* the futures of this repetition, by query
    latencies, hits, recalls, qps_by_rep, first_latency,
    sampled,        \* the query behind each element of latencies
    results,        \* results[db_name]["k=<k>"]
    saved           \* metrics.json written

inputs == <<dbs, topks, concurrency, repetitions, warmup, nq>>
acc == <<latencies, hits, recalls, qps_by_rep, first_latency, sampled>>
pool == <<order, subIdx, queue, fut>>
vars == <<inputs, pc, dbIdx, db, adapter, wPass, wQ, kIdx, rep, pool, acc, results, saved>>

SeqsUpTo(S, n) == UNION {[1 .. m -> S] : m \in 1 .. n}
Max(a, b) == IF a >= b THEN a ELSE b

\* the (backend, k, repetition) passes a run makes
Passes(d, t, r) == Len(d) * Len(t) * Max(r, 1)

NewFut == [st |-> "new", lat |-> 0, k |-> 0]
NoFuts == [q \in 1 .. nq |-> NewFut]

db_name == dbs[dbIdx]
k == topks[kIdx]

Running == {q \in 1 .. nq : fut[q].st = "running"}
Pending == {q \in 1 .. nq : fut[q].st \in {"queued", "running"}}

Init ==
    /\ dbs \in SeqsUpTo(DbNames, MaxPasses)
    /\ topks \in SeqsUpTo(Ks, MaxPasses)
    /\ repetitions \in 0 .. MaxPasses
    /\ nq \in 0 .. MaxQueries
    /\ Passes(dbs, topks, repetitions) <= MaxPasses
    /\ Passes(dbs, topks, repetitions) * Max(nq, 1) <= MaxSamples
    /\ concurrency \in 0 .. MaxConc
    /\ warmup \in Warmups
    /\ pc = "for_db"
    /\ dbIdx = 1
    /\ db = "None"
    /\ adapter = "none"
    /\ wPass = 0 /\ wQ = 1
    /\ kIdx = 1
    /\ rep = 0
    /\ order = <<>>
    /\ subIdx = 0
    /\ queue = <<>>
    /\ fut = NoFuts
    /\ latencies = <<>> /\ hits = <<>> /\ recalls = <<>> /\ qps_by_rep = <<>>
    /\ first_latency = NoneStat
    /\ sampled = <<>>
    /\ results = {}
    /\ saved = FALSE

\* ------------------------------------------------------- main(): backends
\* for db_name in args.dbs: db = get_db(db_name, args)
NextDb ==
    /\ pc = "for_db" /\ dbIdx <= Len(dbs)
    /\ db' = get_db(db_name)
    /\ adapter' = "none"
    /\ wPass' = 0 /\ wQ' = 1
    /\ pc' = "call_setup"
    /\ UNCHANGED <<inputs, dbIdx, kIdx, rep, pool, acc, results, saved>>

\* db.setup(...) is entered; on None the attribute lookup raises
SetupCall ==
    /\ pc = "call_setup"
    /\ IF db = "None"
       THEN pc' = "crashed" /\ UNCHANGED adapter
       ELSE pc' = "in_setup" /\ adapter' = "in_setup"
    /\ UNCHANGED <<inputs, dbIdx, db, wPass, wQ, kIdx, rep, pool, acc, results, saved>>

\* mutant: the ingest is skipped, the warm-up follows setup
PcAfterSetup_SkipsUpsert == "warmup"

\* the statement main() runs once db.setup has returned
PcAfterSetup == "call_upsert"

SetupReturn ==
    /\ pc = "in_setup"
    /\ adapter' = "ready"
    /\ pc' = PcAfterSetup
    /\ UNCHANGED <<inputs, dbIdx, db, wPass, wQ, kIdx, rep, pool, acc, results, saved>>

\* an exception of an adapter call on the main thread leaves main()
AdapterRaise ==
    /\ pc \in {"in_setup", "in_upsert", "in_warm_search", "in_teardown"}
    /\ pc' = "crashed"
    /\ adapter' = CASE pc = "in_setup" -> "setup_failed"
                     [] pc = "in_upsert" -> "upsert_failed"
                     [] pc = "in_teardown" -> "teardown_failed"
                     [] OTHER -> adapter
    /\ UNCHANGED <<inputs, dbIdx, db, wPass, wQ, kIdx, rep, pool, acc, results, saved>>

UpsertCall ==
    /\ pc = "call_upsert"
    /\ adapter' = "in_upsert"
    /\ pc' = "in_upsert"
    /\ UNCHANGED <<inputs, dbIdx, db, wPass, wQ, kIdx, rep, pool, acc, results, saved>>

UpsertReturn ==
    /\ pc = "in_upsert"
    /\ adapter' = "loaded"
    /\ pc' = "warmup"
    /\ UNCHANGED <<inputs, dbIdx, db, wPass, wQ, kIdx, rep, pool, acc, results, saved>>

\* ------------------------------------------------------ main(): warm-up
\* _ = db.search(q_vec, top_k = topks[0]) is entered
WarmSearchCall ==
    /\ pc = "warmup" /\ wPass < Max(0, warmup) /\ wQ <= nq
    /\ pc' = "in_warm_search"
    /\ UNCHANGED <<inputs, dbIdx, db, adapter, wPass, wQ, kIdx, rep, pool, acc,
                   results, saved>>

WarmSearchReturn ==
    /\ pc = "in_warm_search"
    /\ pc' = "warmup"
    /\ IF wQ < nq THEN wQ' = wQ + 1 /\ UNCHANGED wPass
                  ELSE wQ' = 1 /\ wPass' = wPass + 1
    /\ UNCHANGED <<inputs, dbIdx, db, adapter, kIdx, rep, pool, acc, results, saved>>

\* the warm-up loops are over: results[db_name] = {}
WarmupDone ==
    /\ pc = "warmup" /\ (wPass >= Max(0, warmup) \/ nq = 0)
    /\ results' = {e \in results : e.db # db_name}
    /\ kIdx' = 1
    /\ pc' = "for_k"
    /\ UNCHANGED <<inputs, dbIdx, db, adapter, wPass, wQ, rep, pool, acc, saved>>


\* ------------------------------------------------- main(): sweep and pool
\* for k in topks: the accumulators of this k start empty
NextK ==
    /\ pc = "for_k" /\ kIdx <= Len(topks)
    /\ latencies' = <<>> /\ hits' = <<>> /\ recalls' = <<>> /\ qps_by_rep' = <<>>
    /\ first_latency' = NoneStat
    /\ sampled' = <<>>
    /\ rep' = 0
    /\ pc' = "for_rep"
    /\ UNCHANGED <<inputs, dbIdx, db, adapter, wPass, wQ, kIdx, pool, results, saved>>

Perms == {f \in [1 .. nq -> 1 .. nq] : \A a, b \in 1 .. nq : f[a] = f[b] => a = b}

\* for rep in range(args.repetitions): shuffle, then enter the executor;
\* ThreadPoolExecutor(max_workers <= 0) raises ValueError
NextRep ==
    /\ pc = "for_rep" /\ rep < repetitions
    /\ \E o \in Perms : order' = o
    /\ subIdx' = 0
    /\ queue' = <<>>
    /\ fut' = NoFuts
    /\ pc' = IF concurrency <= 0 THEN "crashed"
             ELSE IF nq = 0 THEN "as_completed" ELSE "submit"
    /\ UNCHANGED <<inputs, dbIdx, db, adapter, wPass, wQ, kIdx, rep, acc, results, saved>>

\* ex.submit(_one_query, queries[idx]) for the next idx of order
Submit ==
    /\ pc = "submit" /\ subIdx < nq
    /\ LET q == order[subIdx + 1] IN
         /\ fut' = [fut EXCEPT ![q].st = "queued"]
         /\ queue' = Append(queue, q)
    /\ subIdx' = subIdx + 1
    /\ pc' = IF subIdx + 1 = nq THEN "as_completed" ELSE "submit"
    /\ UNCHANGED <<inputs, dbIdx, db, adapter, wPass, wQ, kIdx, rep, order, acc,
                   results, saved>>

\* mutant: one thread per submitted item, max_workers ignored
PoolHasFreeWorker_Unbounded == TRUE

\* the executor runs a queued item only on one of its max_workers threads
PoolHasFreeWorker == Cardinality(Running) < concurrency

\* mutant: the measured search passes the warm-up's top_k
QueryTopK_WarmupK == topks[1]

\* the top_k _one_query passes: k of the enclosing loop, read when it runs
QueryTopK == topks[kIdx]

\* a worker thread takes the oldest item and enters db.search(q_vec, top_k = k)
WorkerStart ==
    /\ queue # <<>>
    /\ PoolHasFreeWorker
    /\ fut' = [fut EXCEPT ![Head(queue)] = [st |-> "running", lat |-> 0, k |-> QueryTopK]]
    /\ queue' = Tail(queue)
    /\ UNCHANGED <<inputs, pc, dbIdx, db, adapter, wPass, wQ, kIdx, rep, order, subIdx,
                   acc, results, saved>>

\* db.search returns; the future holds (latency, res, q)
WorkerReturn ==
    \E q \in Running : \E lat \in Latencies :
        /\ fut' = [fut EXCEPT ![q].st = "done", ![q].lat = lat]
        /\ UNCHANGED <<inputs, pc, dbIdx, db, adapter, wPass, wQ, kIdx, rep, order,
                       subIdx, queue, acc, results, saved>>

\* db.search raises; the future holds the exception
WorkerRaise ==
    \E q \in Running :
        /\ fut' = [fut EXCEPT ![q].st = "failed"]
        /\ UNCHANGED <<inputs, pc, dbIdx, db, adapter, wPass, wQ, kIdx, rep, order,
                       subIdx, queue, acc, results, saved>>

\* mutant: the guard is dropped, every sample overwrites first_latency
FirstLatency_Overwrites(cur, lat) == Rat(lat, 1)

\* if first_latency is None: first_latency = latency
FirstLatency(cur, lat) == IF cur.none THEN Rat(lat, 1) ELSE cur

\* for f in as_completed(futs): one finished future is sampled
Collect ==
    /\ pc = "as_completed"
    /\ \E q \in 1 .. nq :
        /\ fut[q].st = "done"
        /\ LET res == Search(db, q, fut[q].k) IN
            /\ first_latency' = FirstLatency(first_latency, fut[q].lat)
            /\ latencies' = Append(latencies, fut[q].lat)
            /\ hits' = Append(hits, hits_at_k(res, q))
            /\ recalls' = Append(recalls, RecallOf(Inter(db_name, res, k, q), k))
            /\ sampled' = Append(sampled, q)
        /\ fut' = [fut EXCEPT ![q].st = "sampled"]
    /\ UNCHANGED <<inputs, pc, dbIdx, db, adapter, wPass, wQ, kIdx, rep, order, subIdx,
                   queue, qps_by_rep, results, saved>>

\* f.result() re-raises the exception of a failed search inside the with block
CollectRaise ==
    /\ pc = "as_completed"
    /\ \E q \in 1 .. nq : fut[q].st = "failed"
    /\ pc' = "exit_raise"
    /\ UNCHANGED <<inputs, dbIdx, db, adapter, wPass, wQ, kIdx, rep, pool, acc,
                   results, saved>>

\* the executor's __exit__ joins its workers, then the exception leaves main()
ExitRaise ==
    /\ pc = "exit_raise"
    /\ Pending = {}
    /\ pc' = "crashed"
    /\ UNCHANGED <<inputs, dbIdx, db, adapter, wPass, wQ, kIdx, rep, pool, acc,
                   results, saved>>

\* mutant: the loop is left after the first future that completes
AllSampled_FirstOnly == nq = 0 \/ \E q \in 1 .. nq : fut[q].st = "sampled"

\* as_completed is exhausted: every future of futs has been yielded
AllSampled == \A q \in 1 .. nq : fut[q].st = "sampled"

\* len(queries) / wall if wall > 0 else 0.0
Qps(wall) == IF wall > 0 THEN Rat(nq, wall) ELSE Rat(0, 1)

\* the with block is left: wall, qps, qps_by_rep.append(qps)
EndRep ==
    /\ pc = "as_completed"
    /\ AllSampled
    /\ \E wall \in Walls : qps_by_rep' = Append(qps_by_rep, Qps(wall))
    /\ rep' = rep + 1
    /\ pc' = "for_rep"
    /\ UNCHANGED <<inputs, dbIdx, db, adapter, wPass, wQ, kIdx, pool, latencies, hits,
                   recalls, first_latency, sampled, results, saved>>

\* ------------------------------------------------------ main(): results
OrNone(s, v) == IF s # <<>> THEN v ELSE NoneStat

\* the entry written to results[db_name]["k=<k>"]
Entry ==
    [db |-> db_name, k |-> k,
     avg_query_latency |-> OrNone(latencies, Mean(latencies)),
     p50_query_latency |-> OrNone(latencies, Percentile(latencies, 50)),
     p95_query_latency |-> OrNone(latencies, Percentile(latencies, 95)),
     p99_query_latency |-> OrNone(latencies, Percentile(latencies, 99)),
     latency_stddev_sq |-> OrNone(latencies, StdSq(latencies)),
     first_query_latency |-> first_latency,
     avg_hits |-> OrNone(hits, Mean(hits)),
     avg_recall |-> OrNone(recalls, MeanRat(recalls)),
     avg_qps |-> OrNone(qps_by_rep, MeanRat(qps_by_rep))]

\* the repetitions of this k are over: the statistics are stored
Aggregate ==
    /\ pc = "for_rep" /\ rep >= repetitions
    /\ results' = {e \in results : ~(e.db = db_name /\ e.k = k)} \cup {Entry}
    /\ kIdx' = kIdx + 1
    /\ pc' = "for_k"
    /\ UNCHANGED <<inputs, dbIdx, db, adapter, wPass, wQ, rep, pool, acc, saved>>

\* the sweep is over: db.teardown() is entered, except for pinecone
TeardownCall ==
    /\ pc = "for_k" /\ kIdx > Len(topks)
    /\ IF db_name # "pinecone"
       THEN /\ pc' = "in_teardown" /\ adapter' = "in_teardown"
            /\ UNCHANGED dbIdx
       ELSE /\ pc' = "for_db" /\ dbIdx' = dbIdx + 1
            /\ UNCHANGED adapter
    /\ kIdx' = 1
    /\ UNCHANGED <<inputs, db, wPass, wQ, rep, pool, acc, results, saved>>

TeardownReturn ==
    /\ pc = "in_teardown"
    /\ adapter' = "closed"
    /\ dbIdx' = dbIdx + 1
    /\ pc' = "for_db"
    /\ UNCHANGED <<inputs, db, wPass, wQ, kIdx, rep, pool, acc, results, saved>>

\* every backend is done: json.dump(results, f)
SaveResults ==
    /\ pc = "for_db" /\ dbIdx > Len(dbs)
    /\ saved' = TRUE
    /\ pc' = "done"
    /\ UNCHANGED <<inputs, dbIdx, db, adapter, wPass, wQ, kIdx, rep, pool, acc, results>>

Next ==
    \/ NextDb \/ SetupCall \/ SetupReturn \/ AdapterRaise
    \/ UpsertCall \/ UpsertReturn
    \/ WarmSearchCall \/ WarmSearchReturn \/ WarmupDone
    \/ NextK \/ NextRep \/ Submit
    \/ WorkerStart \/ WorkerReturn \/ WorkerRaise
    \/ Collect \/ CollectRaise \/ ExitRaise \/ EndRep
    \/ Aggregate \/ TeardownCall \/ TeardownReturn \/ SaveResults

Spec == Init /\ [][Next]_vars


\* ================================================================ claims
InPool == pc \in {"submit", "as_completed", "exit_raise"}
SearchInFlight == pc = "in_warm_search" \/ Running # {}
Finished == {"done", "failed", "sampled"}
One == Rat(1, 1)

\* the samples of repetition r within a list accumulated over repetitions
RepSlice(s, r) == SubSeq(s, (r - 1) * nq + 1, r * nq)

\* the entry stored for the pair (db_name, k) whose repetitions just ended
StoredK == topks[kIdx - 1]
StoredEntry == CHOOSE e \in results : e.db = db_name /\ e.k = StoredK
JustStored == pc = "for_k" /\ kIdx > 1

\* the identifiers a search result carries, whatever their representation
ResultIds(res) == {IF r.row_id.t = "none" THEN r.id.v ELSE r.row_id.v : r \in res}

\* C1: a search call that fails does not abort the repetition: the run goes on
\* (the failure is recorded, the other queries are sampled, an entry is stored).
C1_QueryFailureIsLocal ==
    (\E q \in 1 .. nq : fut[q].st = "failed") => pc \notin {"exit_raise", "crashed"}

\* C2: a backend whose setup or upsert fails is abandoned alone: the run goes
\* on to the later backends and writes its results.
C2_SetupFailureIsLocal ==
    adapter \in {"setup_failed", "upsert_failed"} => pc # "crashed"

\* C3: setup, upsert and teardown of a backend never overlap a search call:
\* a search is in flight only between the return of upsert and the start of
\* teardown, and teardown starts with no submitted search outstanding.
C3_AdapterCallsSequential ==
    /\ adapter \in {"in_setup", "in_upsert", "in_teardown"} =>
            ~SearchInFlight /\ Pending = {}
    /\ SearchInFlight => adapter = "loaded"
    /\ Pending # {} => adapter = "loaded"

C3_Witness ==
    /\ adapter = "in_teardown"
    /\ warmup >= 1 /\ concurrency >= 2 /\ nq >= 2
    /\ Len(latencies) >= 2

\* C4: no more than concurrency search calls are in flight, and with
\* concurrency = 1 a search starts only once every search submitted before it
\* in the repetition has returned.
C4_BoundedPool ==
    /\ Cardinality(Running) <= concurrency
    /\ (concurrency = 1 /\ InPool) =>
            \A i, j \in 1 .. subIdx :
                (i < j /\ fut[order[j]].st \in Finished \cup {"running"})
                    => fut[order[i]].st \in Finished

C4_Witness == concurrency >= 2 /\ Cardinality(Running) = concurrency

\* C5: the (query, hit, recall) samples of a finished repetition are one
\* sample per query, with the scores that backend, query and k fix: the same
\* for every concurrency, shuffle order and interleaving.
C5_ScoresIndependentOfConcurrency ==
    (pc = "for_rep" /\ rep >= 1) =>
        /\ Len(sampled) = rep * nq /\ Len(hits) = rep * nq /\ Len(recalls) = rep * nq
        /\ \A q \in 1 .. nq :
            \E i \in ((rep - 1) * nq + 1) .. (rep * nq) :
                /\ sampled[i] = q
                /\ hits[i] = hits_at_k(Search(db_name, q, k), q)
                /\ StatEq(recalls[i],
                          RecallOf(Inter(db_name, Search(db_name, q, k), k, q), k))

C5_Witness ==
    /\ pc = "for_rep" /\ rep >= 1
    /\ concurrency >= 2 /\ nq >= 2
    /\ sampled[(rep - 1) * nq + 1] # order[1]
    /\ hits[(rep - 1) * nq + 1] # hits[rep * nq]

\* C6: with zero queries and at least one repetition, every statistic of a
\* stored entry is None.
C6_EmptyStatsAreNone ==
    (nq = 0 /\ repetitions >= 1) =>
        \A e \in results :
            /\ e.avg_query_latency.none /\ e.p50_query_latency.none
            /\ e.p95_query_latency.none /\ e.p99_query_latency.none
            /\ e.latency_stddev_sq.none /\ e.first_query_latency.none
            /\ e.avg_hits.none /\ e.avg_recall.none
            /\ e.avg_qps.none

\* C7: a sample whose search result is exactly the exact baseline's identifier
\* set has recall 1.0, for every k >= 1 (k > len(vectors) included).
C7_SelfRecallIsOne ==
    (pc \in {"as_completed", "for_rep"} /\ Len(recalls) = Len(sampled)) =>
        \A i \in 1 .. Len(recalls) :
            ResultIds(Search(db, sampled[i], k)) = ExactTopK(sampled[i], k)
                => StatEq(recalls[i], One)

\* C8: outside the executor block no query is submitted or in flight, and a
\* repetition's throughput and the pair's statistics are computed with every
\* query of every finished repetition sampled exactly once.
C8_RepetitionsDoNotOverlap ==
    /\ ~InPool => Pending = {}
    /\ pc = "for_rep" =>
        /\ rep <= repetitions
        /\ \A q \in 1 .. nq : fut[q].st \in {"new", "sampled"}
        /\ Len(qps_by_rep) = rep
        /\ Len(sampled) = rep * nq /\ Len(latencies) = rep * nq
        /\ \A r \in 1 .. rep : \A q \in 1 .. nq :
                Cardinality({i \in ((r - 1) * nq + 1) .. (r * nq) : sampled[i] = q}) = 1
    /\ JustStored =>
        /\ rep = repetitions
        /\ Len(latencies) = repetitions * nq /\ Len(qps_by_rep) = repetitions

C8_Witness ==
    /\ pc = "for_rep" /\ rep = 2
    /\ nq >= 2 /\ concurrency >= 2
    /\ sampled[1] # sampled[nq + 1]

\* the per-repetition statistics of the pair just stored
RepMeanLatency == [r \in 1 .. repetitions |-> Mean(RepSlice(latencies, r))]
RepMeanHits == [r \in 1 .. repetitions |-> Mean(RepSlice(hits, r))]
RepMeanRecall == [r \in 1 .. repetitions |-> MeanRat(RepSlice(recalls, r))]
RepFirst == [r \in 1 .. repetitions |-> Rat(RepSlice(latencies, r)[1], 1)]
RepPercentile(p) == [r \in 1 .. repetitions |-> Percentile(RepSlice(latencies, r), p)]
Measured == JustStored /\ repetitions >= 1 /\ nq >= 1

C10_UnsupportedNameFailsAtStartup ==
    (\E i \in 1 .. Len(dbs) : get_db(dbs[i]) = "None") =>
        (dbIdx = 1 /\ adapter = "none")

====
